---- MODULE Spec2Model ----
(***************************************************************************)
(* A model of scripts/generate-notebooks.py: the cell and notebook         *)
(* builders, the five lesson generators, the NOTEBOOKS registry and the    *)
(* batch build main(), run against a small file system; and the builders   *)
(* once more with Python's reference semantics, on a heap of objects.      *)
(*                                                                         *)
(* Text is a sequence of tokens.  A token is one of the characters that    *)
(* the code or the JSON encoder treats specially (line feed, double        *)
(* quote, backslash, a non-ASCII character, written "U+XXXX") or a run of  *)
(* other ASCII characters.  The concatenation of the tokens is the text.   *)
(***************************************************************************)
EXTENDS Integers, Sequences, FiniteSets, TLC

VARIABLES
  pc,          \* position of main(): the statement about to run
  run,         \* number of the current invocation of the script
  modIdx,      \* position of the loops over NOTEBOOKS (module)
  lessonIdx,   \* position of the inner loop over lessons
  notebook,    \* main's local `notebook`: Unbound, or Bound(the notebook)
  f,           \* Bound(path) of the file object the with-statement holds
  handles,     \* the paths this process holds an open file handle on
  generated,   \* main's local `generated` (empty until line 1097 binds it)
  stdout,      \* the lines printed so far by this invocation
  raised,      \* the exception propagating out of main, or None
  returned,    \* Unbound until main() returns, then Bound(its value)
  exitStatus,  \* Unbound while the process runs, then Bound(its status)
  fs,          \* the file system under notebooks_dir: path -> node
  faults,      \* environment errors injected so far
  fs0,         \* history: fs when the current invocation started
  prevFs,      \* history: Bound(fs at the end of the previous invocation)
  prevOutcome, \* history: how the previous invocation ended
  touched,     \* history: paths this invocation created or wrote
  call,        \* the builder call under test
  ret,         \* what that call returned
  heap,        \* the dict and list objects allocated so far, by address
  roots,       \* the blocks, lists and Documents the calls have returned
  effect       \* the number of client updates so far, and the last target

driverVars == <<pc, run, modIdx, lessonIdx, notebook, f, handles, generated, stdout,
                raised, returned, exitStatus, fs, faults, fs0, prevFs,
                prevOutcome, touched>>
builderVars == <<call, ret>>
heapVars == <<heap, roots, effect>>
vars == <<driverVars, builderVars, heapVars>>

None == "None"
\* A local variable before its first assignment, and after it.
Unbound == <<>>
Bound(v) == <<v>>
\* Python values whose type matters: None and a list.
PyNone == [type |-> "NoneType"]
PyList(items) == [type |-> "list", items |-> items]
LF == "\n"
DQ == "\""
BS == "\\"

(* ----------------------------------------------------------------------- *)
(* Bounds of the model.                                                    *)
(* ----------------------------------------------------------------------- *)
MaxLen == 3     \* longest text handed to a cell builder under test
MaxCells == 2   \* longest cell list handed to create_notebook under test
MaxRuns == 2    \* invocations of the script in a row
MaxFaults == 1  \* environment errors injected over all invocations

(* ----------------------------------------------------------------------- *)
(* Generic helpers.                                                        *)
(* ----------------------------------------------------------------------- *)
\* F applied to the value of v: the argument is evaluated once, before
\* the call, as Python evaluates it.
Call(F(_), v) == CHOOSE out \in {F(x) : x \in {v}} : TRUE

RECURSIVE FlattenFrom(_, _)
FlattenFrom(ss, i) ==
  IF i > Len(ss) THEN <<>> ELSE ss[i] \o FlattenFrom(ss, i + 1)

\* The concatenation of the sequences in ss.
Flatten(ss) ==
  LET All(s) == FlattenFrom(s, 1)
  IN Call(All, ss \o <<>>)

RECURSIVE JoinFrom(_, _, _)
JoinFrom(ss, sep, i) ==
  IF i > Len(ss) THEN <<>>
  ELSE IF i = Len(ss) THEN ss[i]
  ELSE ss[i] \o sep \o JoinFrom(ss, sep, i + 1)

\* The sequences in ss with sep between them.
Join(ss, sep) ==
  LET All(s) == JoinFrom(s, sep, 1)
  IN Call(All, ss \o <<>>)

Occurs(sub, s) ==
  \E i \in 0..(Len(s) - Len(sub)) : SubSeq(s, i + 1, i + Len(sub)) = sub

SeqsUpTo(S, n) == UNION {[1..k -> S] : k \in 0..n}

(* ----------------------------------------------------------------------- *)
(* The builders (lines 17-64).                                             *)
(* ----------------------------------------------------------------------- *)
NBFORMAT_VERSION == 4
NBFORMAT_MINOR == 0

\* A faulty variant of split: empty segments are dropped.
RECURSIVE split_DropEmpty(_)
split_DropEmpty(source) ==
  IF \A i \in 1..Len(source) : source[i] # LF
  THEN IF source = <<>> THEN <<>> ELSE <<source>>
  ELSE LET i == CHOOSE j \in 1..Len(source) :
                  /\ source[j] = LF
                  /\ \A k \in 1..(j - 1) : source[k] # LF
       IN (IF i = 1 THEN <<>> ELSE <<SubSeq(source, 1, i - 1)>>)
            \o split_DropEmpty(SubSeq(source, i + 1, Len(source)))

\* str.split('\n'): the maximal LF-free segments, empty ones kept.
RECURSIVE split(_)
split(source) ==
  IF \A i \in 1..Len(source) : source[i] # LF
  THEN <<source>>
  ELSE LET i == CHOOSE j \in 1..Len(source) :
                  /\ source[j] = LF
                  /\ \A k \in 1..(j - 1) : source[k] # LF
       IN <<SubSeq(source, 1, i - 1)>>
            \o split(SubSeq(source, i + 1, Len(source)))

\* A Python dict whose values are strings: the (key, value) pairs in
\* insertion order.
EmptyDict == <<>>
DictKeys(d) == {d[i][1] : i \in 1..Len(d)}
SetItem(d, k, v) ==
  IF k \in DictKeys(d)
  THEN [i \in 1..Len(d) |-> IF d[i][1] = k THEN <<k, v>> ELSE d[i]]
  ELSE Append(d, <<k, v>>)

\* A faulty variant of create_markdown_cell: it carries the code fields.
create_markdown_cell_AsCode(source) ==
  [cell_type |-> "markdown",
   execution_count |-> None,
   metadata |-> EmptyDict,
   outputs |-> <<>>,
   source |-> split(source)]

create_markdown_cell(source) ==
  [cell_type |-> "markdown",
   metadata |-> EmptyDict,
   source |-> split(source)]

\* A faulty variant of create_code_cell: the marker is attached whatever hidden is.
create_code_cell_AlwaysForm(source, hidden) ==
  [cell_type |-> "code",
   execution_count |-> None,
   metadata |-> << <<"cellView", "form">> >>,
   outputs |-> <<>>,
   source |-> split(source)]

create_code_cell(source, hidden) ==
  LET cell == [cell_type |-> "code",
               execution_count |-> None,
               metadata |-> EmptyDict,
               outputs |-> <<>>,
               source |-> split(source)]
  IN IF hidden
     THEN [cell EXCEPT !.metadata = SetItem(cell.metadata, "cellView", "form")]
     ELSE cell

\* create_code_cell(source): the parameter hidden takes its default.
create_code_cell_default(source) == create_code_cell(source, FALSE)

NotebookMetadata ==
  [kernelspec |-> [display_name |-> <<"Python", " ", "3">>,
                   language |-> <<"python">>,
                   name |-> <<"python3">>],
   language_info |-> [name |-> <<"python">>,
                      version |-> <<"3.10.0">>],
   colab |-> [provenance |-> <<>>,
              toc_visible |-> TRUE,
              authorship_tag |-> <<"QuantLearn">>]]

\* A faulty variant of create_notebook: a heading cell is made of the title.
create_notebook_WithHeading(cells, title) ==
  [nbformat |-> NBFORMAT_VERSION,
   nbformat_minor |-> NBFORMAT_MINOR,
   metadata |-> NotebookMetadata,
   cells |-> <<create_markdown_cell(title)>> \o cells]

\* A faulty variant of create_notebook: the title is stored in the metadata.
create_notebook_Titled(cells, title) ==
  [nbformat |-> NBFORMAT_VERSION,
   nbformat_minor |-> NBFORMAT_MINOR,
   metadata |-> [NotebookMetadata EXCEPT !.colab.authorship_tag = title],
   cells |-> cells]

create_notebook(cells, title) ==
  [nbformat |-> NBFORMAT_VERSION,
   nbformat_minor |-> NBFORMAT_MINOR,
   metadata |-> NotebookMetadata,
   cells |-> cells]

(* ----------------------------------------------------------------------- *)
(* json.dump(obj, f, indent=2) with the default ensure_ascii=True, on the  *)
(* shapes the builders produce.  Keys are written in insertion order.      *)
(* ----------------------------------------------------------------------- *)
\* The non-ASCII characters of the templates (and one more for the builder
\* calls under test), with the \uXXXX escape the encoder writes for each.
UEscape ==
  [c \in {"U+00A1", "U+00A6", "U+00F0", "U+0178", "U+2019", "U+201C",
          "U+2713"} |->
     CASE c = "U+00A1" -> "u00a1"
       [] c = "U+00A6" -> "u00a6"
       [] c = "U+00F0" -> "u00f0"
       [] c = "U+0178" -> "u0178"
       [] c = "U+2019" -> "u2019"
       [] c = "U+201C" -> "u201c"
       [] c = "U+2713" -> "u2713"]

\* A faulty variant of JsonEscape: every character is written as it is.
JsonEscape_Raw(c) == <<c>>

JsonEscape(c) ==
  CASE c = DQ -> <<BS, DQ>>
    [] c = BS -> <<BS, BS>>
    [] c = LF -> <<BS, "n">>
    [] c \in DOMAIN UEscape -> <<BS, UEscape[c]>>
    [] OTHER -> <<c>>

JsonString(text) ==
  <<DQ>> \o Flatten([i \in 1..Len(text) |-> JsonEscape(text[i])]) \o <<DQ>>

Indent(level) == [i \in 1..level |-> "  "]
NewLine(level) == <<LF>> \o Indent(level)

\* items: the encoded elements, in order.
JsonArray(items, level) ==
  LET Encode(its) ==
        IF its = <<>> THEN <<"[", "]">>
        ELSE <<"[">> \o NewLine(level + 1)
               \o Join(its, <<",">> \o NewLine(level + 1))
               \o NewLine(level) \o <<"]">>
  IN Call(Encode, items \o <<>>)

\* members: the pairs <<key, encoded value>>, in insertion order.
JsonObject(members, level) ==
  LET Encode(ms) ==
        IF ms = <<>> THEN <<"{", "}">>
        ELSE <<"{">> \o NewLine(level + 1)
               \o Join([i \in 1..Len(ms) |->
                          JsonString(<<ms[i][1]>>) \o <<":", " ">>
                            \o ms[i][2]],
                       <<",">> \o NewLine(level + 1))
               \o NewLine(level) \o <<"}">>
  IN Call(Encode, members)

JsonBool(b) == IF b THEN <<"true">> ELSE <<"false">>
JsonInt(n) == <<ToString(n)>>
JsonNull == <<"null">>

DumpStrDict(d, level) ==
  JsonObject([i \in 1..Len(d) |-> <<d[i][1], JsonString(<<d[i][2]>>)>>],
             level)

DumpLines(lines, level) ==
  JsonArray([i \in 1..Len(lines) |-> JsonString(lines[i])], level)

DumpCell(cell, level) ==
  IF cell.cell_type = "markdown"
  THEN JsonObject(
         << <<"cell_type", JsonString(<<cell.cell_type>>)>>,
            <<"metadata", DumpStrDict(cell.metadata, level + 1)>>,
            <<"source", DumpLines(cell.source, level + 1)>> >>, level)
  ELSE JsonObject(
         << <<"cell_type", JsonString(<<cell.cell_type>>)>>,
            <<"execution_count", JsonNull>>,
            <<"metadata", DumpStrDict(cell.metadata, level + 1)>>,
            <<"outputs", JsonArray(cell.outputs, level + 1)>>,
            <<"source", DumpLines(cell.source, level + 1)>> >>, level)

DumpMetadata(md, level) ==
  JsonObject(
    << <<"kernelspec",
         JsonObject(
           << <<"display_name", JsonString(md.kernelspec.display_name)>>,
              <<"language", JsonString(md.kernelspec.language)>>,
              <<"name", JsonString(md.kernelspec.name)>> >>, level + 1)>>,
       <<"language_info",
         JsonObject(
           << <<"name", JsonString(md.language_info.name)>>,
              <<"version", JsonString(md.language_info.version)>> >>,
           level + 1)>>,
       <<"colab",
         JsonObject(
           << <<"provenance", JsonArray(md.colab.provenance, level + 2)>>,
              <<"toc_visible", JsonBool(md.colab.toc_visible)>>,
              <<"authorship_tag", JsonString(md.colab.authorship_tag)>> >>,
           level + 1)>> >>, level)

json_dumps(nb) ==
  JsonObject(
    << <<"nbformat", JsonInt(nb.nbformat)>>,
       <<"nbformat_minor", JsonInt(nb.nbformat_minor)>>,
       <<"metadata", DumpMetadata(nb.metadata, 1)>>,
       <<"cells", JsonArray([i \in 1..Len(nb.cells) |->
                               DumpCell(nb.cells[i], 2)], 1)>> >>, 0)

(* ----------------------------------------------------------------------- *)
(* The notebook templates (lines 70-1064).                                 *)
(* ----------------------------------------------------------------------- *)
(* create_basics_returns_notebook (source lines 70-219): the cells in source order, each text
   abbreviated to its first 2 lines; the title argument as passed. *)
create_basics_returns_notebook_cells ==
  << create_markdown_cell(<<"#", " ", "Introduction", " ", "to", " ", "Returns", LF>>),
     create_code_cell(<<"#@title", " ", "U+00F0", "U+0178", "U+201C", "U+00A6", " ", "Setup", " ", "(Run", " ", "this", " ", "first)", LF, "import", " ", "numpy", " ", "as", " ", "np">>, TRUE),
     create_markdown_cell(<<"##", " ", "Simple", " ", "Returns", LF>>),
     create_code_cell_default(<<"#", " ", "Example:", " ", "Calculate", " ", "simple", " ", "returns", LF, "prices", " ", "=", " ", "np.array([100,", " ", "102,", " ", "99,", " ", "105,", " ", "103])">>),
     create_markdown_cell(<<"##", " ", "Log", " ", "Returns", LF>>),
     create_code_cell_default(<<"#", " ", "Calculate", " ", "log", " ", "returns", LF, "log_returns", " ", "=", " ", "np.log(prices[1:]", " ", "/", " ", "prices[:-1])">>),
     create_markdown_cell(<<"##", " ", "Exercise:", " ", "Calculate", " ", "Returns", LF>>),
     create_code_cell_default(<<"#", " ", "Exercise:", " ", "Your", " ", "code", " ", "here", LF, "prices", " ", "=", " ", "np.array([50,", " ", "52,", " ", "51,", " ", "55,", " ", "54,", " ", "58])">>),
     create_code_cell(<<"#@title", " ", "U+00F0", "U+0178", "U+2019", "U+00A1", " ", "Solution", " ", "(click", " ", "to", " ", "reveal)", LF>>, TRUE),
     create_code_cell_default(<<"#", " ", "Verification", LF, "print(", DQ, "Checking", " ", "your", " ", "solution...", DQ, ")">>),
     create_markdown_cell(<<"##", " ", "Summary", LF>>) >>

create_basics_returns_notebook_title ==
  <<"Introduction", " ", "to", " ", "Returns">>

create_basics_returns_notebook ==
  create_notebook(create_basics_returns_notebook_cells, create_basics_returns_notebook_title)

(* create_basics_statistics_notebook (source lines 222-366): the cells in source order, each text
   abbreviated to its first 2 lines; the title argument as passed. *)
create_basics_statistics_notebook_cells ==
  << create_markdown_cell(<<"#", " ", "Descriptive", " ", "Statistics", " ", "for", " ", "Returns", LF>>),
     create_code_cell(<<"#@title", " ", "U+00F0", "U+0178", "U+201C", "U+00A6", " ", "Setup", LF, "import", " ", "numpy", " ", "as", " ", "np">>, TRUE),
     create_markdown_cell(<<"##", " ", "Mean", " ", "and", " ", "Volatility", LF>>),
     create_code_cell_default(<<"#", " ", "Generate", " ", "sample", " ", "returns", " ", "(simulating", " ", "daily", " ", "stock", " ", "returns)", LF, "n_days", " ", "=", " ", "252", "  ", "#", " ", "One", " ", "trading", " ", "year">>),
     create_markdown_cell(<<"##", " ", "Skewness", " ", "and", " ", "Kurtosis", LF>>),
     create_code_cell_default(<<"#", " ", "Calculate", " ", "higher", " ", "moments", LF, "skewness", " ", "=", " ", "stats.skew(daily_returns)">>),
     create_markdown_cell(<<"##", " ", "Exercise:", " ", "Analyze", " ", "Real-ish", " ", "Returns", LF>>),
     create_code_cell_default(<<"#", " ", "Sample", " ", "data:", " ", "Returns", " ", "with", " ", "fat", " ", "tails", LF, "returns", " ", "=", " ", "np.array([">>),
     create_code_cell(<<"#@title", " ", "U+00F0", "U+0178", "U+2019", "U+00A1", " ", "Solution", LF, "returns", " ", "=", " ", "np.array([">>, TRUE),
     create_markdown_cell(<<"##", " ", "Summary", LF>>) >>

create_basics_statistics_notebook_title ==
  <<"Descriptive", " ", "Statistics">>

create_basics_statistics_notebook ==
  create_notebook(create_basics_statistics_notebook_cells, create_basics_statistics_notebook_title)

(* create_backtesting_fundamentals_notebook (source lines 369-595): the cells in source order, each text
   abbreviated to its first 2 lines; the title argument as passed. *)
create_backtesting_fundamentals_notebook_cells ==
  << create_markdown_cell(<<"#", " ", "Backtesting", " ", "Fundamentals", LF>>),
     create_code_cell(<<"#@title", " ", "U+00F0", "U+0178", "U+201C", "U+00A6", " ", "Setup", LF, "import", " ", "numpy", " ", "as", " ", "np">>, TRUE),
     create_markdown_cell(<<"##", " ", "The", " ", "Backtesting", " ", "Framework", LF>>),
     create_code_cell_default(<<"#", " ", "1.", " ", "Generate", " ", "sample", " ", "price", " ", "data", LF, "n_days", " ", "=", " ", "500">>),
     create_markdown_cell(<<"##", " ", "2.", " ", "Create", " ", "a", " ", "Signal", LF>>),
     create_code_cell_default(<<"#", " ", "Calculate", " ", "moving", " ", "averages", LF, "fast_period", " ", "=", " ", "20">>),
     create_markdown_cell(<<"##", " ", "3.", " ", "Calculate", " ", "Strategy", " ", "Returns", LF>>),
     create_code_cell_default(<<"#", " ", "Position", " ", "=", " ", "previous", " ", "day's", " ", "signal", " ", "(avoid", " ", "look-ahead", " ", "bias!)", LF, "df['Position']", " ", "=", " ", "df['Signal'].shift(1)">>),
     create_markdown_cell(<<"##", " ", "4.", " ", "Performance", " ", "Metrics">>),
     create_code_cell_default(<<"def", " ", "calculate_metrics(returns,", " ", "periods_per_year=252):", LF, "    ", DQ, DQ, DQ, "Calculate", " ", "key", " ", "performance", " ", "metrics.", DQ, DQ, DQ>>),
     create_markdown_cell(<<"##", " ", "Exercise:", " ", "Build", " ", "Your", " ", "Own", " ", "Backtest", LF>>),
     create_code_cell_default(<<"#", " ", "Exercise:", " ", "Implement", " ", "momentum", " ", "strategy", LF, "#", " ", "Use", " ", "the", " ", "same", " ", "df", " ", "DataFrame">>),
     create_code_cell(<<"#@title", " ", "U+00F0", "U+0178", "U+2019", "U+00A1", " ", "Solution", LF>>, TRUE),
     create_markdown_cell(<<"##", " ", "Summary", LF>>) >>

create_backtesting_fundamentals_notebook_title ==
  <<"Backtesting", " ", "Fundamentals">>

create_backtesting_fundamentals_notebook ==
  create_notebook(create_backtesting_fundamentals_notebook_cells, create_backtesting_fundamentals_notebook_title)

(* create_strategies_trend_following_notebook (source lines 598-808): the cells in source order, each text
   abbreviated to its first 2 lines; the title argument as passed. *)
create_strategies_trend_following_notebook_cells ==
  << create_markdown_cell(<<"#", " ", "Trend", " ", "Following", " ", "Strategies", LF>>),
     create_code_cell(<<"#@title", " ", "U+00F0", "U+0178", "U+201C", "U+00A6", " ", "Setup", LF, "import", " ", "numpy", " ", "as", " ", "np">>, TRUE),
     create_markdown_cell(<<"##", " ", "1.", " ", "Moving", " ", "Average", " ", "Crossover", LF>>),
     create_code_cell_default(<<"#", " ", "MA", " ", "Crossover", " ", "Strategy", LF, "fast_period", " ", "=", " ", "20">>),
     create_markdown_cell(<<"##", " ", "2.", " ", "Breakout", " ", "Strategy", LF>>),
     create_code_cell_default(<<"#", " ", "Breakout", " ", "Strategy", " ", "(Donchian", " ", "Channel)", LF, "lookback", " ", "=", " ", "20">>),
     create_markdown_cell(<<"##", " ", "3.", " ", "Momentum", " ", "Strategy", LF>>),
     create_code_cell_default(<<"#", " ", "Momentum", " ", "Strategy", LF, "momentum_period", " ", "=", " ", "20">>),
     create_markdown_cell(<<"##", " ", "Exercise:", " ", "Build", " ", "a", " ", "Combined", " ", "Trend", " ", "Signal", LF>>),
     create_code_cell_default(<<"#", " ", "Exercise:", " ", "Combined", " ", "trend", " ", "signal", LF>>),
     create_code_cell(<<"#@title", " ", "U+00F0", "U+0178", "U+2019", "U+00A1", " ", "Solution", LF>>, TRUE),
     create_markdown_cell(<<"##", " ", "Summary", LF>>) >>

create_strategies_trend_following_notebook_title ==
  <<"Trend", " ", "Following", " ", "Strategies">>

create_strategies_trend_following_notebook ==
  create_notebook(create_strategies_trend_following_notebook_cells, create_strategies_trend_following_notebook_title)

(* create_strategies_mean_reversion_notebook (source lines 811-1064): the cells in source order, each text
   abbreviated to its first 2 lines; the title argument as passed. *)
create_strategies_mean_reversion_notebook_cells ==
  << create_markdown_cell(<<"#", " ", "Mean", " ", "Reversion", " ", "Strategies", LF>>),
     create_code_cell(<<"#@title", " ", "U+00F0", "U+0178", "U+201C", "U+00A6", " ", "Setup", LF, "import", " ", "numpy", " ", "as", " ", "np">>, TRUE),
     create_markdown_cell(<<"##", " ", "1.", " ", "Bollinger", " ", "Bands", LF>>),
     create_code_cell_default(<<"#", " ", "Bollinger", " ", "Bands", " ", "Strategy", LF, "window", " ", "=", " ", "20">>),
     create_markdown_cell(<<"##", " ", "2.", " ", "RSI", " ", "(Relative", " ", "Strength", " ", "Index)", LF>>),
     create_code_cell_default(<<"#", " ", "RSI", " ", "Strategy", LF, "def", " ", "calculate_rsi(prices,", " ", "period=14):">>),
     create_markdown_cell(<<"##", " ", "Strategy", " ", "Comparison">>),
     create_code_cell_default(<<"#", " ", "Compare", " ", "strategies", LF, "df_clean", " ", "=", " ", "df.dropna()">>),
     create_markdown_cell(<<"##", " ", "Exercise:", " ", "Z-Score", " ", "Mean", " ", "Reversion", LF>>),
     create_code_cell_default(<<"#", " ", "Exercise:", " ", "Z-Score", " ", "strategy", " ", "with", " ", "exit", " ", "rules", LF>>),
     create_code_cell(<<"#@title", " ", "U+00F0", "U+0178", "U+2019", "U+00A1", " ", "Solution", LF>>, TRUE),
     create_markdown_cell(<<"##", " ", "Summary", LF>>) >>

create_strategies_mean_reversion_notebook_title ==
  <<"Mean", " ", "Reversion", " ", "Strategies">>

create_strategies_mean_reversion_notebook ==
  create_notebook(create_strategies_mean_reversion_notebook_cells, create_strategies_mean_reversion_notebook_title)

(* ----------------------------------------------------------------------- *)
(* The registry (lines 1071-1083): module -> lesson slug -> generator, in  *)
(* insertion order.  A generator takes no argument and reads no state, so  *)
(* it is held as the notebook it returns.                                  *)
(* ----------------------------------------------------------------------- *)
NOTEBOOKS ==
  << <<"basics",
       << <<"01-introduction-to-returns", create_basics_returns_notebook>>,
          <<"02-descriptive-statistics", create_basics_statistics_notebook>> >> >>,
     <<"backtesting",
       << <<"02-backtesting-fundamentals",
            create_backtesting_fundamentals_notebook>> >> >>,
     <<"strategies",
       << <<"01-trend-following", create_strategies_trend_following_notebook>>,
          <<"02-mean-reversion", create_strategies_mean_reversion_notebook>> >> >> >>

\* NOTEBOOKS.keys(), NOTEBOOKS[module].items() by position.
ModuleName(m) == NOTEBOOKS[m][1]
Lessons(m) == NOTEBOOKS[m][2]
LessonSlug(m, l) == Lessons(m)[l][1]
GeneratorFunc(m, l) == Lessons(m)[l][2]

\* The registry entries as positions <<m, l>>, and their iteration order.
Entries ==
  UNION {{<<m, l>> : l \in 1..Len(Lessons(m))} : m \in 1..Len(NOTEBOOKS)}
EntryOrder ==
  Flatten([m \in 1..Len(NOTEBOOKS) |->
             [l \in 1..Len(Lessons(m)) |-> <<m, l>>]])

(* ----------------------------------------------------------------------- *)
(* Paths and the file system.  A path is the sequence of its components    *)
(* below notebooks_dir; <<>> is notebooks_dir itself.                      *)
(* ----------------------------------------------------------------------- *)
NotebooksDir == <<>>
module_dir(m) == <<ModuleName(m)>>
\* A faulty variant of output_path: one file name for every lesson.
output_path_PerModule(m, l) == <<ModuleName(m), "index.ipynb">>
\* A faulty variant of output_path: the suffix is left out.
output_path_NoSuffix(m, l) == <<ModuleName(m), LessonSlug(m, l)>>
output_path(m, l) == <<ModuleName(m), LessonSlug(m, l) \o ".ipynb">>
\* A faulty variant of Identifier: the module is left out.
Identifier_SlugOnly(m, l) == LessonSlug(m, l)
Identifier(m, l) == ModuleName(m) \o "/" \o LessonSlug(m, l)
Parent(path) == SubSeq(path, 1, Len(path) - 1)

Dir == [kind |-> "dir"]
File(data) == [kind |-> "file", data |-> data]
IsDir(fsys, path) == path \in DOMAIN fsys /\ fsys[path].kind = "dir"
IsFile(fsys, path) == path \in DOMAIN fsys /\ fsys[path].kind = "file"
Put(fsys, path, node) ==
  [p \in DOMAIN fsys \cup {path} |-> IF p = path THEN node ELSE fsys[p]]
FilesOf(fsys) == {p \in DOMAIN fsys : fsys[p].kind = "file"}

Ok(fsys) == [fs |-> fsys, err |-> None]
Err(fsys, e) == [fs |-> fsys, err |-> e]

\* Path.mkdir(parents, exist_ok) on a path below notebooks_dir.
RECURSIVE Mkdir(_, _, _, _)
Mkdir(fsys, path, parents, exist_ok) ==
  IF path \in DOMAIN fsys
  THEN IF exist_ok /\ IsDir(fsys, path)
       THEN Ok(fsys)
       ELSE Err(fsys, "FileExistsError")
  ELSE IF path = NotebooksDir \/ IsDir(fsys, Parent(path))
       THEN Ok(Put(fsys, path, Dir))
       ELSE IF Parent(path) \in DOMAIN fsys
            THEN Err(fsys, "NotADirectoryError")
            ELSE IF ~parents
                 THEN Err(fsys, "FileNotFoundError")
                 ELSE LET up == Mkdir(fsys, Parent(path), TRUE, TRUE)
                      IN IF up.err # None THEN up
                         ELSE Mkdir(up.fs, path, FALSE, exist_ok)

\* A faulty variant of MkdirModuleDir: notebooks_dir itself is created.
MkdirModuleDir_RootOnly(fsys, path) == Mkdir(fsys, NotebooksDir, TRUE, TRUE)

\* A faulty variant of MkdirModuleDir: exist_ok is left at its default.
MkdirModuleDir_NoExistOk(fsys, path) == Mkdir(fsys, path, TRUE, FALSE)

\* module_dir.mkdir(parents=True, exist_ok=True)   (line 1094)
MkdirModuleDir(fsys, path) == Mkdir(fsys, path, TRUE, TRUE)

\* open(path, mode) for mode 'w' (truncate) or 'a' (keep, write at the end).
Open(fsys, path, mode) ==
  IF ~(Parent(path) \in DOMAIN fsys) THEN Err(fsys, "FileNotFoundError")
  ELSE IF ~IsDir(fsys, Parent(path)) THEN Err(fsys, "NotADirectoryError")
  ELSE IF IsDir(fsys, path) THEN Err(fsys, "IsADirectoryError")
  ELSE IF IsFile(fsys, path) /\ mode = "a" THEN Ok(fsys)
  ELSE Ok(Put(fsys, path, File(<<>>)))

\* A faulty variant of OpenOutput: the file is opened for appending.
OpenOutput_Append(fsys, path) == Open(fsys, path, "a")

\* open(output_path, 'w')   (line 1103)
OpenOutput(fsys, path) == Open(fsys, path, "w")

\* A faulty variant of Write: the last token of the data never reaches the file.
Write_Short(fsys, path, data) ==
  Put(fsys, path, File(fsys[path].data \o SubSeq(data, 1, Len(data) - 1)))

\* f.write(data): the data goes to the end of the file.
Write(fsys, path, data) == Put(fsys, path, File(fsys[path].data \o data))

(* ----------------------------------------------------------------------- *)
(* The trees the build may find under notebooks_dir when it starts.        *)
(* ----------------------------------------------------------------------- *)
\* What an output file holds before the build: text of some older version.
OldData == <<"{", DQ, "cells", DQ, ":", " ", "[", "]", "}", LF>>
\* A file in a module directory that is no registry entry's output.
StrayPath == <<ModuleName(1), "draft.ipynb">>

ModulePaths == {module_dir(m) : m \in 1..Len(NOTEBOOKS)}
OutputPaths == {output_path(e[1], e[2]) : e \in Entries}

\* notebooks_dir is absent or a directory; a module path is absent, a
\* directory or a regular file; a file lies in an existing directory.
WellFormed(t) ==
  /\ NotebooksDir \in DOMAIN t => t[NotebooksDir] = Dir
  /\ \A p \in DOMAIN t :
       /\ Len(p) >= 1 => IsDir(t, Parent(p))
       /\ Len(p) = 2 => t[p].kind = "file"

InitialTrees ==
  {t \in UNION {[D -> {Dir, File(OldData)}] :
                  D \in SUBSET ({NotebooksDir} \cup ModulePaths
                                  \cup OutputPaths \cup {StrayPath})} :
     WellFormed(t)}

(* ----------------------------------------------------------------------- *)
(* main() (lines 1086-1114), one action per statement.                     *)
(* ----------------------------------------------------------------------- *)
\* A faulty variant of Abort: the error is caught at the top and the
\* process exits normally.
Abort_ExitZero(e) ==
  /\ pc' = "aborted"
  /\ raised' = e
  /\ exitStatus' = Bound(0)

Abort(e) ==
  /\ pc' = "aborted"
  /\ raised' = e
  /\ exitStatus' = Bound(1)

\* An error of the environment (permission denied, disk full) may strike
\* while fewer than MaxFaults have.
MayFault == faults < MaxFaults

\* for module in NOTEBOOKS.keys(): module_dir.mkdir(parents=True, exist_ok=True)
MakeDir ==
  /\ pc = "mkdir"
  /\ LET r == MkdirModuleDir(fs, module_dir(modIdx))
     IN IF r.err # None
        THEN /\ Abort(r.err)
             /\ UNCHANGED <<modIdx, generated, fs, touched>>
        ELSE /\ fs' = r.fs
             /\ touched' = touched \cup (DOMAIN r.fs \ DOMAIN fs)
             /\ IF modIdx < Len(NOTEBOOKS)
                THEN /\ modIdx' = modIdx + 1
                     /\ UNCHANGED <<pc, generated>>
                ELSE /\ modIdx' = 1
                     /\ generated' = <<>>
                     /\ pc' = "generate"
             /\ UNCHANGED <<raised, exitStatus>>
  /\ UNCHANGED <<run, lessonIdx, notebook, f, stdout, returned, faults,
                 fs0, prevFs, prevOutcome, handles,
                 builderVars, heapVars>>

\* mkdir fails for a reason of the environment; nothing is created.
MakeDirFault ==
  /\ pc = "mkdir"
  /\ MayFault
  /\ faults' = faults + 1
  /\ Abort("PermissionError")
  /\ UNCHANGED <<run, modIdx, lessonIdx, notebook, f, generated, stdout,
                 returned, fs, fs0, prevFs, prevOutcome, touched,
                 handles,
                 builderVars, heapVars>>

\* notebook = generator_func()
Generate ==
  /\ pc = "generate"
  /\ notebook' = Bound(GeneratorFunc(modIdx, lessonIdx))
  /\ pc' = "open"
  /\ UNCHANGED <<run, modIdx, lessonIdx, f, generated, stdout, raised,
                 returned, exitStatus, fs, faults, fs0, prevFs, prevOutcome,
                 touched, handles,
                 builderVars, heapVars>>

\* with open(output_path, 'w') as f:
OpenFile ==
  /\ pc = "open"
  /\ LET path == output_path(modIdx, lessonIdx)
         r == OpenOutput(fs, path)
     IN IF r.err # None
        THEN /\ Abort(r.err)
             /\ UNCHANGED <<f, handles, fs, touched>>
        ELSE /\ fs' = r.fs
             /\ f' = Bound(path)
             /\ handles' = handles \cup {path}
             /\ touched' = touched \cup {path}
             /\ pc' = "dump"
             /\ UNCHANGED <<raised, exitStatus>>
  /\ UNCHANGED <<run, modIdx, lessonIdx, notebook, generated, stdout,
                 returned, faults, fs0, prevFs, prevOutcome, builderVars, heapVars>>

\* open fails for a reason of the environment; the path is left as it was.
OpenFileFault ==
  /\ pc = "open"
  /\ MayFault
  /\ faults' = faults + 1
  /\ Abort("PermissionError")
  /\ UNCHANGED <<run, modIdx, lessonIdx, notebook, f, generated, stdout,
                 returned, fs, fs0, prevFs, prevOutcome, touched,
                 handles,
                 builderVars, heapVars>>

\* json.dump(notebook, f, indent=2)
Dump ==
  /\ pc = "dump"
  /\ fs' = Write(fs, f[1], json_dumps(notebook[1]))
  /\ pc' = "close"
  /\ UNCHANGED <<run, modIdx, lessonIdx, notebook, f, generated, stdout,
                 raised, returned, exitStatus, faults, fs0, prevFs,
                 prevOutcome, touched, handles,
                 builderVars, heapVars>>

\* A faulty variant of DumpFault: the error is caught and dropped.
DumpFault_Swallowed ==
  /\ pc = "dump"
  /\ MayFault
  /\ faults' = faults + 1
  /\ LET data == json_dumps(notebook[1])
     IN \E n \in {0, Len(data) \div 2} :
          fs' = Write(fs, f[1], SubSeq(data, 1, n))
  /\ pc' = "close"
  /\ UNCHANGED <<run, modIdx, lessonIdx, notebook, f, generated, stdout,
                 raised, returned, exitStatus, fs0, prevFs, prevOutcome,
                 touched, handles, builderVars, heapVars>>

\* The write fails part way (disk full): a prefix of the text has reached
\* the file and the error leaves the with-block.
DumpFault ==
  /\ pc = "dump"
  /\ MayFault
  /\ faults' = faults + 1
  /\ LET data == json_dumps(notebook[1])
     IN \E n \in {0, Len(data) \div 2} :
          fs' = Write(fs, f[1], SubSeq(data, 1, n))
  /\ raised' = "OSError"
  /\ pc' = "close"
  /\ UNCHANGED <<run, modIdx, lessonIdx, notebook, f, generated, stdout,
                 returned, exitStatus, fs0, prevFs, prevOutcome, touched,
                 handles,
                 builderVars, heapVars>>

\* A faulty variant of CloseFile: f is closed on the normal path only.
CloseFile_OnSuccessOnly ==
  /\ pc = "close"
  /\ IF raised # None
     THEN /\ pc' = "aborted"
          /\ exitStatus' = Bound(1)
          /\ UNCHANGED <<f, handles>>
     ELSE /\ pc' = "append"
          /\ f' = Unbound
          /\ handles' = handles \ {f[1]}
          /\ UNCHANGED exitStatus
  /\ UNCHANGED <<run, modIdx, lessonIdx, notebook, generated, stdout, raised,
                 returned, fs, faults, fs0, prevFs, prevOutcome, touched,
                 builderVars, heapVars>>

\* Leaving the with-block closes f, on the normal path and on an error.
CloseFile ==
  /\ pc = "close"
  /\ f' = Unbound
  /\ handles' = handles \ {f[1]}
  /\ IF raised # None
     THEN /\ pc' = "aborted"
          /\ exitStatus' = Bound(1)
     ELSE /\ pc' = "append"
          /\ UNCHANGED exitStatus
  /\ UNCHANGED <<run, modIdx, lessonIdx, notebook, generated, stdout, raised,
                 returned, fs, faults, fs0, prevFs, prevOutcome, touched,
                 builderVars, heapVars>>

\* generated.append(f"{module}/{lesson_slug}"); print(f"Generated: ...")
AppendGenerated ==
  /\ pc = "append"
  /\ generated' = Append(generated, Identifier(modIdx, lessonIdx))
  /\ stdout' = Append(stdout, <<"Generated:", output_path(modIdx, lessonIdx)>>)
  /\ IF lessonIdx < Len(Lessons(modIdx))
     THEN /\ lessonIdx' = lessonIdx + 1
          /\ pc' = "generate"
          /\ UNCHANGED modIdx
     ELSE IF modIdx < Len(NOTEBOOKS)
          THEN /\ modIdx' = modIdx + 1
               /\ lessonIdx' = 1
               /\ pc' = "generate"
          ELSE /\ pc' = "summary"
               /\ UNCHANGED <<modIdx, lessonIdx>>
  /\ UNCHANGED <<run, notebook, f, raised, returned, exitStatus, fs, faults,
                 fs0, prevFs, prevOutcome, touched, handles,
                 builderVars, heapVars>>

\* print(f"Generated {len(generated)} notebooks!") and the usage hint; main
\* has no return statement, and the process exits with status 0.
Summary ==
  /\ pc = "summary"
  /\ stdout' = Append(stdout, <<"Generated", Len(generated), "notebooks!">>)
  /\ returned' = Bound(PyNone)
  /\ exitStatus' = Bound(0)
  /\ pc' = "done"
  /\ UNCHANGED <<run, modIdx, lessonIdx, notebook, f, generated, raised, fs,
                 faults, fs0, prevFs, prevOutcome, touched, handles,
                 builderVars, heapVars>>

\* The script is invoked again, as a new process, on the tree the last
\* invocation left.
RunAgain ==
  /\ pc \in {"done", "aborted"}
  /\ run < MaxRuns
  /\ run' = run + 1
  /\ prevFs' = Bound(fs)
  /\ prevOutcome' = pc
  /\ fs0' = fs
  /\ touched' = {}
  /\ pc' = "mkdir"
  /\ modIdx' = 1
  /\ lessonIdx' = 1
  /\ notebook' = Unbound
  /\ generated' = <<>>
  /\ stdout' = <<>>
  /\ raised' = None
  /\ returned' = Unbound
  /\ exitStatus' = Unbound
  /\ handles' = {}
  /\ UNCHANGED <<f, fs, faults, builderVars, heapVars>>

NoCall == [op |-> "none"]
NoResult == [type |-> "no result"]

\* No object is allocated when the interpreter starts the script.
NoEffect == [n |-> 0, addr |-> 0]
HeapStart ==
  /\ heap = <<>>
  /\ roots = <<>>
  /\ effect = NoEffect

DriverStart(t) ==
  /\ pc = "mkdir"
  /\ run = 1
  /\ modIdx = 1
  /\ lessonIdx = 1
  /\ notebook = Unbound
  /\ f = Unbound
  /\ handles = {}
  /\ generated = <<>>
  /\ stdout = <<>>
  /\ raised = None
  /\ returned = Unbound
  /\ exitStatus = Unbound
  /\ fs = t
  /\ faults = 0
  /\ fs0 = t
  /\ prevFs = Unbound
  /\ prevOutcome = None
  /\ touched = {}

Init ==
  /\ \E t \in InitialTrees : DriverStart(t)
  /\ call = NoCall
  /\ ret = NoResult
  /\ HeapStart

Next ==
  \/ MakeDir
  \/ MakeDirFault
  \/ Generate
  \/ OpenFile
  \/ OpenFileFault
  \/ Dump
  \/ DumpFault
  \/ CloseFile
  \/ AppendGenerated
  \/ Summary
  \/ RunAgain

\* The steps of main() itself.
MainStep ==
  \/ MakeDir
  \/ MakeDirFault
  \/ Generate
  \/ OpenFile
  \/ OpenFileFault
  \/ Dump
  \/ DumpFault
  \/ CloseFile
  \/ AppendGenerated
  \/ Summary

Spec == Init /\ [][Next]_vars

\* The position of the interpreter in main(): the statement it is at and
\* the two loop indices.  Every step of main() moves it.
position == <<pc, modIdx, lessonIdx>>

\* main() is straight-line synchronous code: a started run keeps taking
\* steps.  Whether the script is invoked again is left open.
FairSpec == Init /\ [][Next]_vars /\ WF_position(MainStep)

(* ----------------------------------------------------------------------- *)
(* The builders called on their own, with arguments from bounded sets.     *)
(* A builder reads and writes no state, so each call starts from NoCall.   *)
(* ----------------------------------------------------------------------- *)
Alphabet == {"a", "U+2713", LF}
\* "a\nb\n\nc"
ExampleText == <<"a", LF, "b", LF, LF, "c">>
Texts == SeqsUpTo(Alphabet, MaxLen) \cup {ExampleText}

\* Cell lists for create_notebook: short lists of cells over a few texts.
PoolTexts == {<<>>, <<"a">>, <<"a", LF, "U+2713">>}
PoolCells ==
  {create_markdown_cell(t) : t \in PoolTexts}
    \cup {create_code_cell(t, h) : t \in PoolTexts, h \in BOOLEAN}
Titles == {<<"a">>, <<"Some", " ", "Title">>, <<"python3">>}

\* The calls main() leads to: each generator's own cells and title.
GeneratorCalls ==
  {<<create_basics_returns_notebook_cells,
     create_basics_returns_notebook_title>>,
   <<create_basics_statistics_notebook_cells,
     create_basics_statistics_notebook_title>>,
   <<create_backtesting_fundamentals_notebook_cells,
     create_backtesting_fundamentals_notebook_title>>,
   <<create_strategies_trend_following_notebook_cells,
     create_strategies_trend_following_notebook_title>>,
   <<create_strategies_mean_reversion_notebook_cells,
     create_strategies_mean_reversion_notebook_title>>}

NotebookCalls ==
  (SeqsUpTo(PoolCells, MaxCells) \X Titles) \cup GeneratorCalls

CallMarkdownCell ==
  /\ call = NoCall
  /\ \E source \in Texts :
       /\ call' = [op |-> "create_markdown_cell", source |-> source]
       /\ ret' = create_markdown_cell(source)
  /\ UNCHANGED <<driverVars, heapVars>>

CallCodeCell ==
  /\ call = NoCall
  /\ \E source \in Texts, hidden \in BOOLEAN :
       /\ call' = [op |-> "create_code_cell", source |-> source,
                   hidden |-> hidden, hidden_given |-> TRUE]
       /\ ret' = create_code_cell(source, hidden)
  /\ UNCHANGED <<driverVars, heapVars>>

\* create_code_cell(source) with hidden left out: it takes its default.
CallCodeCellDefault ==
  /\ call = NoCall
  /\ \E source \in Texts :
       /\ call' = [op |-> "create_code_cell", source |-> source,
                   hidden |-> FALSE, hidden_given |-> FALSE]
       /\ ret' = create_code_cell_default(source)
  /\ UNCHANGED <<driverVars, heapVars>>

CallNotebook ==
  /\ call = NoCall
  /\ \E c \in NotebookCalls :
       /\ call' = [op |-> "create_notebook", cells |-> c[1], title |-> c[2]]
       /\ ret' = create_notebook(c[1], c[2])
  /\ UNCHANGED <<driverVars, heapVars>>

BuilderInit ==
  /\ DriverStart([p \in {} |-> Dir])
  /\ call = NoCall
  /\ ret = NoResult
  /\ HeapStart

BuilderNext ==
  \/ CallMarkdownCell
  \/ CallCodeCell
  \/ CallCodeCellDefault
  \/ CallNotebook

BuilderSpec == BuilderInit /\ [][BuilderNext]_vars

(* ======================================================================= *)
(* Properties.                                                             *)
(* ======================================================================= *)
ExpectedIdentifiers ==
  <<"basics/01-introduction-to-returns",
    "basics/02-descriptive-statistics",
    "backtesting/02-backtesting-fundamentals",
    "strategies/01-trend-following",
    "strategies/02-mean-reversion">>

ExpectedFiles ==
  {<<"basics", "01-introduction-to-returns.ipynb">>,
   <<"basics", "02-descriptive-statistics.ipynb">>,
   <<"backtesting", "02-backtesting-fundamentals.ipynb">>,
   <<"strategies", "01-trend-following.ipynb">>,
   <<"strategies", "02-mean-reversion.ipynb">>}

(* C1, as claimed: the batch build returns the sequence of the five
   "category/item" identifiers in registry order. *)
C1_ReturnsIdentifiers ==
  pc = "done" => returned = Bound(PyList(ExpectedIdentifiers))

(* C1, amended: a completed batch build has accumulated in `generated`
   exactly the five "category/item" identifiers, in registry order; main
   itself returns no value. *)
C1_GeneratedIdentifiers ==
  pc = "done" => generated = ExpectedIdentifiers /\ returned = Bound(PyNone)

C1_Witness ==
  pc = "done" /\ Len(generated) = 5

(* C2: after a batch build that completes from an empty output root the
   files under the root are exactly the five <category>/<item>.ipynb. *)
EmptyRoot(t) == DOMAIN t \subseteq {NotebooksDir}

C2_ExactlyTheRegistryFiles ==
  pc = "done" /\ EmptyRoot(fs0)
    => /\ FilesOf(fs) = ExpectedFiles
       /\ Cardinality(FilesOf(fs)) = 5
       /\ \A e \in Entries : IsFile(fs, output_path(e[1], e[2]))

C2_Witness ==
  pc = "done" /\ EmptyRoot(fs0) /\ FilesOf(fs) = ExpectedFiles

(* C3: a batch build that completes right after a completed one leaves
   every registry entry's file with the content the first one left. *)
C3_Idempotent ==
  pc = "done" /\ prevOutcome = "done"
    => \A p \in ExpectedFiles :
         IsFile(fs, p) /\ IsFile(prevFs[1], p)
                       /\ fs[p] = prevFs[1][p]

C3_Witness ==
  /\ pc = "done"
  /\ prevOutcome = "done"
  /\ \A p \in ExpectedFiles : IsFile(fs, p) /\ fs[p].data # <<>>

(* C4: every Document a registry generator returns has a non-empty block
   sequence and the fixed metadata: format 4.0, kernel ("Python 3",
   "python", "python3"), language version "3.10.0", empty provenance,
   toc_visible, authorship tag "QuantLearn"; so any two agree on it. *)
HasFixedMetadata(nb) ==
  /\ nb.nbformat = 4
  /\ nb.nbformat_minor = 0
  /\ nb.metadata.kernelspec.display_name = <<"Python", " ", "3">>
  /\ nb.metadata.kernelspec.language = <<"python">>
  /\ nb.metadata.kernelspec.name = <<"python3">>
  /\ nb.metadata.language_info.version = <<"3.10.0">>
  /\ nb.metadata.colab.provenance = <<>>
  /\ nb.metadata.colab.toc_visible = TRUE
  /\ nb.metadata.colab.authorship_tag = <<"QuantLearn">>

C4_GeneratedDocuments ==
  notebook # Unbound
    => /\ Len(notebook[1].cells) > 0
       /\ HasFixedMetadata(notebook[1])
       /\ \A e \in Entries :
            GeneratorFunc(e[1], e[2]).metadata = notebook[1].metadata

C4_Witness ==
  /\ pc = "open"
  /\ modIdx = Len(NOTEBOOKS)
  /\ lessonIdx = Len(Lessons(modIdx))
  /\ HasFixedMetadata(notebook[1])

(* C5, as claimed: the title passed to create_notebook occurs nowhere in the
   serialized form of the structure it returns. *)
C5_TitleNeverOccurs ==
  call.op = "create_notebook" => ~Occurs(call.title, json_dumps(ret))

(* C5, amended: create_notebook writes no title into the structure: the
   returned Document has the four fixed fields, its blocks are the given
   ones, and its serialized form is the same whatever the title.  (The text
   of the title still occurs in it when the blocks or the fixed metadata
   contain that text, as with every registry generator.) *)
C5_TitleNotWritten ==
  call.op = "create_notebook"
    => /\ DOMAIN ret = {"nbformat", "nbformat_minor", "metadata", "cells"}
       /\ ret.cells = call.cells
       /\ HasFixedMetadata(ret)
       /\ \A t \in Titles \cup {<<>>} :
            json_dumps(create_notebook(call.cells, t)) = json_dumps(ret)

C5_Witness ==
  /\ call.op = "create_notebook"
  /\ call.title = create_basics_returns_notebook_title
  /\ call.cells = create_basics_returns_notebook_cells
  /\ Occurs(call.title, json_dumps(ret))

(* C6: create_markdown_cell returns a "markdown" block with empty metadata
   whose lines are the split of the text at each line feed: LF-free
   segments, in order, empty ones kept, one more than there are line
   feeds; "a\nb\n\nc" gives ["a", "b", "", "c"]. *)
CountLF(text) == Cardinality({i \in 1..Len(text) : text[i] = LF})

IsLineSplit(text, lines) ==
  /\ Len(lines) = CountLF(text) + 1
  /\ \A i \in 1..Len(lines) : CountLF(lines[i]) = 0
  /\ Join(lines, <<LF>>) = text

C6_NarrativeBlock ==
  call.op = "create_markdown_cell"
    => /\ DOMAIN ret = {"cell_type", "metadata", "source"}
       /\ ret.cell_type = "markdown"
       /\ ret.metadata = <<>>
       /\ IsLineSplit(call.source, ret.source)
       /\ (call.source = ExampleText
             => ret.source = << <<"a">>, <<"b">>, <<>>, <<"c">> >>)

C6_Witness ==
  /\ call.op = "create_markdown_cell"
  /\ call.source = ExampleText
  /\ ret.source = << <<"a">>, <<"b">>, <<>>, <<"c">> >>

(* C7: create_code_cell returns a "code" block with no outputs, no
   execution count, the lines split as for a markdown cell, and the
   "cellView": "form" marker in its metadata exactly when hidden is true;
   with hidden left out the metadata is empty. *)
C7_SnippetBlock ==
  call.op = "create_code_cell"
    => /\ DOMAIN ret = {"cell_type", "execution_count", "metadata",
                        "outputs", "source"}
       /\ ret.cell_type = "code"
       /\ ret.outputs = <<>>
       /\ ret.execution_count = None
       /\ IsLineSplit(call.source, ret.source)
       /\ ret.source = create_markdown_cell(call.source).source
       /\ IF call.hidden
          THEN ret.metadata = << <<"cellView", "form">> >>
          ELSE ret.metadata = <<>>
       /\ ~call.hidden_given => ret.metadata = <<>>

C7_Witness ==
  /\ call.op = "create_code_cell"
  /\ call.hidden
  /\ "cellView" \in DictKeys(ret.metadata)
  /\ CountLF(call.source) > 0

(* C8: a batch build on a tree whose module directories (and output files)
   already exist does not fail with "file exists": that error arises only
   where a module path is a regular file, and without an error of the
   environment a build on such a tree, and the build after it, complete. *)
ModulePathIsFile(t) == \E p \in ModulePaths : IsFile(t, p)

EnvironmentErrors == {"PermissionError", "OSError"}

C8_DirectoriesMayExist ==
  /\ raised = "FileExistsError" => ModulePathIsFile(fs0)
  /\ pc = "aborted" /\ ~ModulePathIsFile(fs0)
       => raised \in EnvironmentErrors

C8_Witness ==
  /\ pc = "done"
  /\ prevOutcome = "done"
  /\ faults = 0
  /\ \A p \in ModulePaths : IsDir(fs0, p)
  /\ \A p \in ExpectedFiles : IsFile(fs0, p)

(* C9: a batch build aborts at the first error: the files of the entries
   before the failing one hold their complete new content, and no entry
   after it has been generated, created or modified by this run. *)
NewFile(e) == File(json_dumps(GeneratorFunc(e[1], e[2])))

Untouched(p) ==
  /\ p \notin touched
  /\ p \in DOMAIN fs <=> p \in DOMAIN fs0
  /\ p \in DOMAIN fs => fs[p] = fs0[p]

\* The entries processed before the error, and the failing one if any.
EntryPos ==
  CHOOSE i \in 1..Len(EntryOrder) : EntryOrder[i] = <<modIdx, lessonIdx>>
DoneBefore == IF notebook = Unbound THEN 0 ELSE EntryPos - 1
FailedAt == IF notebook = Unbound THEN 0 ELSE EntryPos

C9_AbortAtFirstError ==
  pc = "aborted"
    => /\ raised # None
       /\ exitStatus = Bound(1)
       /\ \A i \in 1..DoneBefore :
            LET e == EntryOrder[i]
            IN /\ output_path(e[1], e[2]) \in DOMAIN fs
               /\ fs[output_path(e[1], e[2])] = NewFile(e)
       /\ \A i \in (FailedAt + 1)..Len(EntryOrder) :
            Untouched(output_path(EntryOrder[i][1], EntryOrder[i][2]))
       /\ generated = SubSeq(ExpectedIdentifiers, 1, DoneBefore)

C9_Witness ==
  /\ pc = "aborted"
  /\ raised = "OSError"
  /\ DoneBefore = 2
  /\ fs[output_path(1, 1)] = NewFile(<<1, 1>>)
  /\ IsFile(fs0, output_path(1, 1)) /\ fs0[output_path(1, 1)].data = OldData
  /\ IsFile(fs0, output_path(3, 1))

(* C10: after a completed batch build every registry entry's file holds
   exactly the serialization of the Document its generator returned,
   whether the path was absent or held older content before. *)
C10_Overwritten ==
  pc = "done"
    => \A e \in Entries :
         /\ IsFile(fs, output_path(e[1], e[2]))
         /\ fs[output_path(e[1], e[2])].data
              = json_dumps(GeneratorFunc(e[1], e[2]))

C10_Witness ==
  /\ pc = "done"
  /\ IsFile(fs0, output_path(1, 1))
  /\ fs0[output_path(1, 1)].data = OldData
  /\ output_path(1, 2) \notin DOMAIN fs0
  /\ fs[output_path(1, 1)].data = json_dumps(GeneratorFunc(1, 1))

(* ----------------------------------------------------------------------- *)
(* Reading a file back: a JSON text decoded into Python values, as         *)
(* json.load does.  The build never does this; the properties below do.    *)
(* ----------------------------------------------------------------------- *)
PyDict(items) == [type |-> "dict", items |-> items]
PyStr(text) == [type |-> "str", text |-> text]
PyInt(n) == [type |-> "int", n |-> n]
PyBool(b) == [type |-> "bool", b |-> b]

\* The Python object a notebook of the model stands for.
PyOfStrDict(d) == PyDict([i \in 1..Len(d) |-> <<d[i][1], PyStr(<<d[i][2]>>)>>])
PyOfLines(lines) == PyList([i \in 1..Len(lines) |-> PyStr(lines[i])])
PyOfCell(cell) ==
  IF cell.cell_type = "markdown"
  THEN PyDict(<< <<"cell_type", PyStr(<<cell.cell_type>>)>>,
                 <<"metadata", PyOfStrDict(cell.metadata)>>,
                 <<"source", PyOfLines(cell.source)>> >>)
  ELSE PyDict(<< <<"cell_type", PyStr(<<cell.cell_type>>)>>,
                 <<"execution_count", PyNone>>,
                 <<"metadata", PyOfStrDict(cell.metadata)>>,
                 <<"outputs", PyList(cell.outputs)>>,
                 <<"source", PyOfLines(cell.source)>> >>)
PyOfNotebook(nb) ==
  PyDict(
    << <<"nbformat", PyInt(nb.nbformat)>>,
       <<"nbformat_minor", PyInt(nb.nbformat_minor)>>,
       <<"metadata",
         PyDict(
           << <<"kernelspec",
                PyDict(<< <<"display_name",
                            PyStr(nb.metadata.kernelspec.display_name)>>,
                          <<"language", PyStr(nb.metadata.kernelspec.language)>>,
                          <<"name", PyStr(nb.metadata.kernelspec.name)>> >>)>>,
              <<"language_info",
                PyDict(<< <<"name", PyStr(nb.metadata.language_info.name)>>,
                          <<"version",
                            PyStr(nb.metadata.language_info.version)>> >>)>>,
              <<"colab",
                PyDict(<< <<"provenance", PyList(nb.metadata.colab.provenance)>>,
                          <<"toc_visible",
                            PyBool(nb.metadata.colab.toc_visible)>>,
                          <<"authorship_tag",
                            PyStr(nb.metadata.colab.authorship_tag)>> >>)>> >>)>>,
       <<"cells", PyList([i \in 1..Len(nb.cells) |-> PyOfCell(nb.cells[i])])>> >>)

\* The decoder: each step returns the value read and the position after it,
\* or ParseError.
ParseError == [ok |-> FALSE]
Parsed(v, next) == [ok |-> TRUE, val |-> v, next |-> next]
Whitespace == {LF, " ", "  "}
Digits == {ToString(n) : n \in 0..9}

RECURSIVE SkipWs(_, _)
SkipWs(s, i) ==
  IF i <= Len(s) /\ s[i] \in Whitespace THEN SkipWs(s, i + 1) ELSE i

Unescape(c) ==
  CASE c = DQ -> <<DQ>>
    [] c = BS -> <<BS>>
    [] c = "n" -> <<LF>>
    [] \E u \in DOMAIN UEscape : UEscape[u] = c
         -> <<CHOOSE u \in DOMAIN UEscape : UEscape[u] = c>>
    [] OTHER -> <<>>

\* s[i] is the first token after the opening quote.
RECURSIVE ParseChars(_, _, _)
ParseChars(s, i, acc) ==
  IF i > Len(s) \/ s[i] = LF THEN ParseError
  ELSE IF s[i] = DQ THEN Parsed(acc, i + 1)
  ELSE IF s[i] = BS
       THEN IF i + 1 > Len(s) \/ Unescape(s[i + 1]) = <<>>
            THEN ParseError
            ELSE ParseChars(s, i + 2, acc \o Unescape(s[i + 1]))
       ELSE ParseChars(s, i + 1, Append(acc, s[i]))

RECURSIVE ParseValue(_, _)
RECURSIVE ParseItems(_, _, _)
RECURSIVE ParseMembers(_, _, _)

\* s[i] is the first token of an element; acc holds the elements read.
ParseItems(s, i, acc) ==
  LET r == ParseValue(s, i)
  IN IF ~r.ok THEN ParseError
     ELSE LET j == SkipWs(s, r.next)
          IN IF j > Len(s) THEN ParseError
             ELSE IF s[j] = "," THEN ParseItems(s, j + 1, Append(acc, r.val))
             ELSE IF s[j] = "]" THEN Parsed(PyList(Append(acc, r.val)), j + 1)
             ELSE ParseError

\* s[i] is at or before the opening quote of a key.
ParseMembers(s, i, acc) ==
  LET k == SkipWs(s, i)
  IN IF k > Len(s) \/ s[k] # DQ THEN ParseError
     ELSE LET key == ParseChars(s, k + 1, <<>>)
          IN IF ~key.ok \/ Len(key.val) # 1 THEN ParseError
             ELSE LET c == SkipWs(s, key.next)
                  IN IF c > Len(s) \/ s[c] # ":" THEN ParseError
                     ELSE LET r == ParseValue(s, c + 1)
                          IN IF ~r.ok THEN ParseError
                             ELSE LET j == SkipWs(s, r.next)
                                      members == Append(acc, <<key.val[1], r.val>>)
                                  IN IF j > Len(s) THEN ParseError
                                     ELSE IF s[j] = ","
                                          THEN ParseMembers(s, j + 1, members)
                                     ELSE IF s[j] = "}"
                                          THEN Parsed(PyDict(members), j + 1)
                                     ELSE ParseError

ParseValue(s, i) ==
  LET j == SkipWs(s, i)
  IN IF j > Len(s) THEN ParseError
     ELSE IF s[j] = "{"
          THEN LET k == SkipWs(s, j + 1)
               IN IF k <= Len(s) /\ s[k] = "}"
                  THEN Parsed(PyDict(<<>>), k + 1)
                  ELSE ParseMembers(s, j + 1, <<>>)
     ELSE IF s[j] = "["
          THEN LET k == SkipWs(s, j + 1)
               IN IF k <= Len(s) /\ s[k] = "]"
                  THEN Parsed(PyList(<<>>), k + 1)
                  ELSE ParseItems(s, j + 1, <<>>)
     ELSE IF s[j] = DQ
          THEN LET r == ParseChars(s, j + 1, <<>>)
               IN IF r.ok THEN Parsed(PyStr(r.val), r.next) ELSE ParseError
     ELSE IF s[j] = "null" THEN Parsed(PyNone, j + 1)
     ELSE IF s[j] = "true" THEN Parsed(PyBool(TRUE), j + 1)
     ELSE IF s[j] = "false" THEN Parsed(PyBool(FALSE), j + 1)
     ELSE IF s[j] \in Digits
          THEN Parsed(PyInt(CHOOSE n \in 0..9 : ToString(n) = s[j]), j + 1)
     ELSE ParseError

\* json.loads(text): one value, with nothing but white space after it.
json_loads(s) ==
  LET r == ParseValue(s, 1)
  IN IF r.ok /\ SkipWs(s, r.next) = Len(s) + 1 THEN r ELSE ParseError

\* The schema of a notebook file.
Keys(d) == [i \in 1..Len(d.items) |-> d.items[i][1]]
Value(d, k) == d.items[CHOOSE i \in 1..Len(d.items) : d.items[i][1] = k][2]
IsStrList(v) ==
  v.type = "list" /\ \A i \in 1..Len(v.items) : v.items[i].type = "str"

ValidCell(c) ==
  /\ c.type = "dict"
  /\ "cell_type" \in {Keys(c)[i] : i \in 1..Len(Keys(c))}
  /\ Value(c, "cell_type").type = "str"
  /\ \/ /\ Value(c, "cell_type").text = <<"markdown">>
        /\ Keys(c) = <<"cell_type", "metadata", "source">>
     \/ /\ Value(c, "cell_type").text = <<"code">>
        /\ Keys(c) = <<"cell_type", "execution_count", "metadata",
                       "outputs", "source">>
        /\ Value(c, "execution_count") = PyNone
        /\ Value(c, "outputs") = PyList(<<>>)
  /\ Value(c, "metadata").type = "dict"
  /\ IsStrList(Value(c, "source"))

ValidDocument(v) ==
  /\ v.type = "dict"
  /\ Keys(v) = <<"nbformat", "nbformat_minor", "metadata", "cells">>
  /\ Value(v, "nbformat") = PyInt(4)
  /\ Value(v, "nbformat_minor") = PyInt(0)
  /\ Value(v, "metadata").type = "dict"
  /\ Keys(Value(v, "metadata")) = <<"kernelspec", "language_info", "colab">>
  /\ Value(v, "cells").type = "list"
  /\ \A i \in 1..Len(Value(v, "cells").items) :
       ValidCell(Value(v, "cells").items[i])

(* C11: every file the batch build has written deserializes to a
   structurally valid Document, equal to the Document the generator
   returned, non-ASCII characters included. *)
C11_RoundTrip ==
  pc = "close" /\ raised = None
    => LET r == json_loads(fs[f[1]].data)
       IN /\ r.ok
          /\ ValidDocument(r.val)
          /\ r.val = PyOfNotebook(notebook[1])

C11_Witness ==
  /\ pc = "close"
  /\ raised = None
  /\ \E i \in 1..Len(notebook[1].cells) :
       \E j \in 1..Len(notebook[1].cells[i].source) :
         Occurs(<<"U+00F0">>, notebook[1].cells[i].source[j])
  /\ json_loads(fs[f[1]].data).ok
  /\ json_loads(fs[f[1]].data).val = PyOfNotebook(notebook[1])

(* C12: module slugs are unique, lesson slugs are unique within a module,
   and no two registry entries share an output path: no run opens a path
   it has already written. *)
C12_PathsDistinct ==
  /\ \A m1, m2 \in 1..Len(NOTEBOOKS) :
       ModuleName(m1) = ModuleName(m2) => m1 = m2
  /\ \A m \in 1..Len(NOTEBOOKS) : \A l1, l2 \in 1..Len(Lessons(m)) :
       LessonSlug(m, l1) = LessonSlug(m, l2) => l1 = l2
  /\ \A e1, e2 \in Entries :
       output_path(e1[1], e1[2]) = output_path(e2[1], e2[2]) => e1 = e2
  /\ pc = "open" => output_path(modIdx, lessonIdx) \notin touched

C12_Witness ==
  /\ pc = "open"
  /\ modIdx = Len(NOTEBOOKS)
  /\ lessonIdx = Len(Lessons(modIdx))
  /\ Cardinality(touched \cap ExpectedFiles) = 4
  /\ output_path(modIdx, lessonIdx) \notin touched

(* C13: in every Document of a registry generator a markdown block has
   empty metadata and neither outputs nor an execution count; those fields
   and the cellView marker are found on code blocks only. *)
C13_NarrativeFields ==
  notebook # Unbound
    => \A i \in 1..Len(notebook[1].cells) :
         LET c == notebook[1].cells[i]
         IN /\ c.cell_type \in {"markdown", "code"}
            /\ c.cell_type = "markdown"
                 => /\ DOMAIN c = {"cell_type", "metadata", "source"}
                    /\ c.metadata = <<>>
            /\ ("outputs" \in DOMAIN c \/ "execution_count" \in DOMAIN c
                  \/ "cellView" \in DictKeys(c.metadata))
                 => c.cell_type = "code"

C13_Witness ==
  /\ notebook # Unbound
  /\ \E i, j \in 1..Len(notebook[1].cells) :
       /\ notebook[1].cells[i].cell_type = "markdown"
       /\ notebook[1].cells[i].metadata = <<>>
       /\ notebook[1].cells[j].cell_type = "code"
       /\ "cellView" \in DictKeys(notebook[1].cells[j].metadata)

(* C14: at most one output file is open at any time: a file is opened,
   written and closed before the next generator is invoked, and its handle
   is released also when the write fails. *)
C14_OneFileOpen ==
  /\ Cardinality(handles) <= 1
  /\ handles # {} => pc \in {"dump", "close"} /\ handles = {f[1]}
  /\ pc \in {"mkdir", "generate", "open", "append", "summary", "done",
             "aborted"} => handles = {}
  /\ pc = "dump" => handles = {output_path(modIdx, lessonIdx)}

C14_Witness ==
  /\ pc = "aborted"
  /\ raised = "OSError"
  /\ handles = {}
  /\ output_path(modIdx, lessonIdx) \in touched
  /\ Len(generated) >= 1

(* C15: the batch build ensures every module directory before it invokes a
   generator or opens a file: a failure while creating a directory leaves
   every output path as the run found it, and no open finds its parent
   directory missing. *)
C15_DirectoriesFirst ==
  /\ pc = "mkdir"
       => notebook = Unbound /\ touched \cap OutputPaths = {}
  /\ (notebook # Unbound \/ pc \in {"generate", "summary", "done"})
       => \A p \in ModulePaths : IsDir(fs, p)
  /\ pc = "aborted" /\ notebook = Unbound
       => \A p \in OutputPaths : Untouched(p)
  /\ pc = "aborted" /\ notebook # Unbound
       => raised \notin {"FileNotFoundError", "NotADirectoryError"}

C15_Witness ==
  /\ pc = "aborted"
  /\ notebook = Unbound
  /\ module_dir(1) \in touched
  /\ IsFile(fs0, output_path(3, 1))
  /\ Untouched(output_path(3, 1))

(* C18: the accumulated sequence is always a prefix of the registry's
   iteration order and holds an identifier only if that entry's file has
   been completely written and closed in this run; the failing entry's
   identifier is never in it, and on completion the count reported is the
   number of registry entries. *)
C18_GeneratedPrefix ==
  /\ Len(generated) <= Len(EntryOrder)
  /\ \A i \in 1..Len(generated) :
       LET e == EntryOrder[i]
           p == output_path(e[1], e[2])
       IN /\ generated[i] = Identifier(e[1], e[2])
          /\ generated[i] = ExpectedIdentifiers[i]
          /\ p \in touched
          /\ p \notin handles
          /\ IsFile(fs, p)
          /\ fs[p] = NewFile(e)
  /\ pc = "aborted" /\ notebook # Unbound => Len(generated) = EntryPos - 1
  /\ pc = "done"
       => /\ stdout[Len(stdout)] = <<"Generated", Cardinality(Entries),
                                     "notebooks!">>
          /\ Len(generated) = Cardinality(Entries)

C18_Witness ==
  /\ pc = "aborted"
  /\ raised = "OSError"
  /\ EntryPos = 3
  /\ generated = SubSeq(ExpectedIdentifiers, 1, 2)
  /\ fs[output_path(2, 1)] # NewFile(<<2, 1>>)

(* C19: create_notebook returns a Document whose blocks are exactly the
   given ones, in the given order, for every block sequence, the empty one
   included; it performs no I/O. *)
C19_BlocksKept ==
  call.op = "create_notebook"
    => /\ Len(ret.cells) = Len(call.cells)
       /\ \A i \in 1..Len(call.cells) : ret.cells[i] = call.cells[i]
       /\ fs = fs0 /\ touched = {} /\ handles = {} /\ stdout = <<>>

C19_Witness ==
  /\ call.op = "create_notebook"
  /\ call.cells = <<>>
  /\ ret.cells = <<>>
  /\ DOMAIN ret = {"nbformat", "nbformat_minor", "metadata", "cells"}

(* C16: every batch build ends in one of two final states: completed,
   each of the five registry entries processed exactly once, with exit
   status 0; or aborted by the first error, with a non-zero exit status.
   Every started run reaches one of the two (it never waits and never goes
   back), and a final state is left only by a new invocation. *)
Final == {"done", "aborted"}

ProcessedOnce ==
  /\ Len(stdout) = Len(EntryOrder) + 1
  /\ \A i \in 1..Len(EntryOrder) :
       stdout[i] = <<"Generated:",
                     output_path(EntryOrder[i][1], EntryOrder[i][2])>>
  /\ Len(generated) = 5

C16_Terminates ==
  /\ [](pc = "done"
          => exitStatus = Bound(0) /\ raised = None /\ ProcessedOnce)
  /\ [](pc = "aborted" => exitStatus # Bound(0) /\ exitStatus # Unbound
                            /\ raised # None)
  /\ [](pc \notin Final => exitStatus = Unbound)
  /\ [][(pc \in Final) => (pc' = "mkdir" /\ run' = run + 1)]_vars
  /\ [](pc \notin Final => <>(pc \in Final))

C16_Witness ==
  /\ pc = "aborted"
  /\ prevOutcome = "done"
  /\ exitStatus = Bound(1)
  /\ raised = "PermissionError"

(* ----------------------------------------------------------------------- *)
(* The builders with Python's reference semantics.  A dict or list display *)
(* allocates a new object, and a variable or an item holds a reference to  *)
(* it; strings, numbers, booleans and None are immutable and are held by   *)
(* value.  heap[a] is the object at address a.                             *)
(* ----------------------------------------------------------------------- *)
MaxCalls == 2     \* builder and generator calls in one interpreter
MaxUpdates == 1   \* updates a client makes to the returned objects

Ref(a) == [type |-> "ref", addr |-> a]
Min(a, b) == IF a <= b THEN a ELSE b

\* d[k], for the dict at address a
GetItem(h, a, k) ==
  LET items == h[a].items
  IN items[CHOOSE i \in 1..Len(items) : items[i][1] = k][2]

\* d[k] = v, for the dict at address a
StoreItem(h, a, k, v) == [h EXCEPT ![a] = PyDict(SetItem(h[a].items, k, v))]

\* create_markdown_cell (lines 21-27).  The displays allocate, in
\* evaluation order: the metadata dict, the list split returns, the cell.
create_markdown_cell_at(h, source) ==
  LET a == Len(h)
  IN [heap |-> h \o << PyDict(<<>>),
                       PyOfLines(split(source)),
                       PyDict(<< <<"cell_type", PyStr(<<"markdown">>)>>,
                                 <<"metadata", Ref(a + 1)>>,
                                 <<"source", Ref(a + 2)>> >>) >>,
      addr |-> a + 3]

\* A faulty variant of create_code_cell_at: the metadata dict is made once,
\* by the first call of the interpreter, and every later cell refers to it.
create_code_cell_at_SharedMetadata(h, source, hidden) ==
  LET a == Len(h)
      cell == a + 4
      h1 == h \o << PyDict(<<>>),
                    PyList(<<>>),
                    PyOfLines(split(source)),
                    PyDict(<< <<"cell_type", PyStr(<<"code">>)>>,
                              <<"execution_count", PyNone>>,
                              <<"metadata", Ref(1)>>,
                              <<"outputs", Ref(a + 2)>>,
                              <<"source", Ref(a + 3)>> >>) >>
  IN [heap |-> IF hidden
               THEN StoreItem(h1, GetItem(h1, cell, "metadata").addr,
                              "cellView", PyStr(<<"form">>))
               ELSE h1,
      addr |-> cell]

\* create_code_cell (lines 29-40).  The displays of lines 31-37 allocate
\* the metadata dict, the outputs list, the list split returns and the
\* cell; lines 38-39 then update the new cell's own metadata dict.
create_code_cell_at(h, source, hidden) ==
  LET a == Len(h)
      cell == a + 4
      h1 == h \o << PyDict(<<>>),
                    PyList(<<>>),
                    PyOfLines(split(source)),
                    PyDict(<< <<"cell_type", PyStr(<<"code">>)>>,
                              <<"execution_count", PyNone>>,
                              <<"metadata", Ref(a + 1)>>,
                              <<"outputs", Ref(a + 2)>>,
                              <<"source", Ref(a + 3)>> >>) >>
  IN [heap |-> IF hidden
               THEN StoreItem(h1, GetItem(h1, cell, "metadata").addr,
                              "cellView", PyStr(<<"form">>))
               ELSE h1,
      addr |-> cell]

\* create_notebook (lines 42-64).  The displays allocate, in evaluation
\* order: kernelspec, language_info, provenance, colab, metadata and the
\* notebook; "cells" holds the reference passed in, the list is not copied.
create_notebook_at(h, cells, title) ==
  LET a == Len(h)
  IN [heap |->
        h \o << PyDict(<< <<"display_name",
                            PyStr(NotebookMetadata.kernelspec.display_name)>>,
                          <<"language",
                            PyStr(NotebookMetadata.kernelspec.language)>>,
                          <<"name",
                            PyStr(NotebookMetadata.kernelspec.name)>> >>),
                PyDict(<< <<"name",
                            PyStr(NotebookMetadata.language_info.name)>>,
                          <<"version",
                            PyStr(NotebookMetadata.language_info.version)>> >>),
                PyList(<<>>),
                PyDict(<< <<"provenance", Ref(a + 3)>>,
                          <<"toc_visible",
                            PyBool(NotebookMetadata.colab.toc_visible)>>,
                          <<"authorship_tag",
                            PyStr(NotebookMetadata.colab.authorship_tag)>> >>),
                PyDict(<< <<"kernelspec", Ref(a + 1)>>,
                          <<"language_info", Ref(a + 2)>>,
                          <<"colab", Ref(a + 4)>> >>),
                PyDict(<< <<"nbformat", PyInt(NBFORMAT_VERSION)>>,
                          <<"nbformat_minor", PyInt(NBFORMAT_MINOR)>>,
                          <<"metadata", Ref(a + 5)>>,
                          <<"cells", cells>> >>) >>,
      addr |-> a + 6]

\* The builder calls in the list display of a generator, in order: the
\* builder, its text (the lines of the cell joined again) and hidden.
TemplateCalls(m, l) ==
  LET cells == GeneratorFunc(m, l).cells
  IN [i \in 1..Len(cells) |->
        [fn |-> cells[i].cell_type,
         source |-> Join(cells[i].source, <<LF>>),
         hidden |-> "cellView" \in DictKeys(cells[i].metadata)]]

TemplateTitle(m, l) ==
  (CHOOSE c \in GeneratorCalls : c[1] = GeneratorFunc(m, l).cells)[2]

\* Evaluating the elements of the list display from the i-th on, left to
\* right; acc holds the addresses of the cells made so far.
RECURSIVE EvalCalls(_, _, _, _)
EvalCalls(h, calls, i, acc) ==
  IF i > Len(calls) THEN [heap |-> h, addrs |-> acc]
  ELSE LET Rest(r) == EvalCalls(r.heap, calls, i + 1, Append(acc, r.addr))
       IN Call(Rest, IF calls[i].fn = "markdown"
                     THEN create_markdown_cell_at(h, calls[i].source)
                     ELSE create_code_cell_at(h, calls[i].source,
                                              calls[i].hidden))

\* A generator: cells = [...]; return create_notebook(cells, title).
generator_func_at(h, m, l) ==
  LET Finish(built) ==
        LET cells == Len(built.heap) + 1
            nb == create_notebook_at(
                    Append(built.heap,
                           PyList([i \in 1..Len(built.addrs) |->
                                     Ref(built.addrs[i])])),
                    Ref(cells), TemplateTitle(m, l))
        IN [heap |-> nb.heap, addr |-> nb.addr, cells |-> cells,
            blocks |-> built.addrs]
  IN Call(Finish, EvalCalls(h, TemplateCalls(m, l), 1, <<>>))

(* ----------------------------------------------------------------------- *)
(* One interpreter in which a client calls the builders and the generators *)
(* and then updates the metadata of what they returned.                    *)
(* ----------------------------------------------------------------------- *)
\* What a call returned: a block, a list of blocks or a Document; the
\* number of the call and the function called; for a generator its entry.
Root(kind, addr, n, by, entry) ==
  [kind |-> kind, addr |-> addr, call |-> n, by |-> by, entry |-> entry]

CallsMade == IF roots = <<>> THEN 0 ELSE roots[Len(roots)].call

HeapTexts == {<<"a", LF, "U+2713">>}

HeapMarkdownCell ==
  /\ CallsMade < MaxCalls
  /\ \E source \in HeapTexts :
       \E r \in {create_markdown_cell_at(heap, source)} :
          /\ heap' = r.heap
          /\ roots' = Append(roots, Root("block", r.addr, CallsMade + 1,
                                         "create_markdown_cell", <<>>))
  /\ UNCHANGED <<driverVars, builderVars, effect>>

HeapCodeCell ==
  /\ CallsMade < MaxCalls
  /\ \E source \in HeapTexts, hidden \in BOOLEAN :
       \E r \in {create_code_cell_at(heap, source, hidden)} :
          /\ heap' = r.heap
          /\ roots' = Append(roots, Root("block", r.addr, CallsMade + 1,
                                         "create_code_cell", <<>>))
  /\ UNCHANGED <<driverVars, builderVars, effect>>

\* The blocks the client got from its own builder calls.
OwnBlocks ==
  {k \in DOMAIN roots : roots[k].kind = "block" /\ roots[k].by # "generator"}

RECURSIVE Ascending(_)
Ascending(S) ==
  IF S = {} THEN <<>>
  ELSE LET k == CHOOSE x \in S : \A y \in S : x <= y
       IN <<k>> \o Ascending(S \ {k})

\* create_notebook on a list display of the client's own blocks.
HeapNotebookNewList ==
  /\ CallsMade < MaxCalls
  /\ \E S \in SUBSET OwnBlocks, title \in Titles :
       /\ Cardinality(S) <= MaxCells
       /\ \E cells \in {PyList([i \in 1..Cardinality(S) |->
                                   Ref(roots[Ascending(S)[i]].addr)])} :
          \E r \in {create_notebook_at(Append(heap, cells),
                                       Ref(Len(heap) + 1), title)} :
             /\ heap' = r.heap
             /\ roots' = roots \o
                  << Root("list", Len(heap) + 1, CallsMade + 1,
                          "create_notebook", <<>>),
                     Root("document", r.addr, CallsMade + 1,
                          "create_notebook", <<>>) >>
  /\ UNCHANGED <<driverVars, builderVars, effect>>

\* create_notebook on a list that an earlier Document already holds.
HeapNotebookSameList ==
  /\ CallsMade < MaxCalls
  /\ \E k \in DOMAIN roots, title \in Titles :
       /\ roots[k].kind = "list"
       /\ \E r \in {create_notebook_at(heap, Ref(roots[k].addr), title)} :
             /\ heap' = r.heap
             /\ roots' = Append(roots, Root("document", r.addr, CallsMade + 1,
                                            "create_notebook", <<>>))
  /\ UNCHANGED <<driverVars, builderVars, effect>>

\* notebook = generator_func(), for a registry entry.  The client keeps
\* the Document, its list and the first MaxCells of its blocks.
HeapGenerator ==
  /\ CallsMade < MaxCalls
  /\ \E e \in Entries :
       \E r \in {generator_func_at(heap, e[1], e[2])} :
          /\ heap' = r.heap
          /\ roots' = roots \o
               [i \in 1..Min(MaxCells, Len(r.blocks)) |->
                  Root("block", r.blocks[i], CallsMade + 1, "generator", e)]
               \o << Root("list", r.cells, CallsMade + 1, "generator", e),
                     Root("document", r.addr, CallsMade + 1, "generator", e) >>
  /\ UNCHANGED <<driverVars, builderVars, effect>>

MetaAddr(h, a) == GetItem(h, a, "metadata").addr
Owners == {k \in DOMAIN roots : roots[k].kind \in {"block", "document"}}

\* The client changes the metadata of one block or Document it holds:
\* cell["metadata"]["cellView"] = "form".
UpdateMetadata ==
  /\ effect.n < MaxUpdates
  /\ \E k \in Owners :
       \E a \in {MetaAddr(heap, roots[k].addr)} :
          /\ "cellView" \notin DictKeys(heap[a].items)
          /\ heap' = StoreItem(heap, a, "cellView", PyStr(<<"form">>))
          /\ effect' = [n |-> effect.n + 1, addr |-> roots[k].addr]
  /\ UNCHANGED <<driverVars, builderVars, roots>>

HeapInit == BuilderInit

HeapNext ==
  \/ HeapMarkdownCell
  \/ HeapCodeCell
  \/ HeapNotebookNewList
  \/ HeapNotebookSameList
  \/ HeapGenerator
  \/ UpdateMetadata

HeapSpec == HeapInit /\ [][HeapNext]_vars

(* C17: Documents and blocks share no mutable state.  The objects reachable
   from the metadata of two different blocks or Documents are disjoint, two
   Documents of different generator calls have no object in common, and an
   update of the metadata of one block or Document changes that metadata
   and leaves the metadata of every other block and Document as it was;
   what a generator returns is its pristine Document whatever was updated
   before. *)
RefAddrs(obj) ==
  IF obj.type = "dict"
  THEN {obj.items[i][2].addr :
          i \in {j \in 1..Len(obj.items) : obj.items[j][2].type = "ref"}}
  ELSE {obj.items[i].addr :
          i \in {j \in 1..Len(obj.items) : obj.items[j].type = "ref"}}

RECURSIVE Reach(_, _)
Reach(h, a) == {a} \cup UNION {Reach(h, b) : b \in RefAddrs(h[a])}

\* The value a reference stands for: the objects behind it, expanded.
RECURSIVE Deref(_, _)
Deref(h, v) ==
  IF v.type # "ref" THEN v
  ELSE LET obj == h[v.addr]
       IN IF obj.type = "dict"
          THEN PyDict([i \in 1..Len(obj.items) |->
                         <<obj.items[i][1], Deref(h, obj.items[i][2])>>])
          ELSE PyList([i \in 1..Len(obj.items) |-> Deref(h, obj.items[i])])

\* Every block and Document on the heap, held by the client or not.
Holders(h) ==
  {a \in DOMAIN h :
     h[a].type = "dict" /\ "metadata" \in DictKeys(h[a].items)}

Metadata(h, a) == Deref(h, Ref(MetaAddr(h, a)))

MetadataSeparate ==
  \A x, y \in Holders(heap) :
    x < y => Reach(heap, MetaAddr(heap, x))
               \cap Reach(heap, MetaAddr(heap, y)) = {}

GeneratedSeparate ==
  \A j, k \in Owners :
    /\ roots[j].kind = "document" /\ roots[j].by = "generator"
    /\ roots[k].kind = "document" /\ roots[k].by = "generator"
    /\ j # k
    => Reach(heap, roots[j].addr) \cap Reach(heap, roots[k].addr) = {}

UpdateIsLocal ==
  effect'.n = effect.n + 1
    => /\ Metadata(heap', effect'.addr) # Metadata(heap, effect'.addr)
       /\ \A x \in Holders(heap) \ {effect'.addr} :
            Metadata(heap', x) = Metadata(heap, x)

GeneratedPristine ==
  Len(roots') > Len(roots) /\ roots'[Len(roots')].by = "generator"
    => LET r == roots'[Len(roots')]
       IN Deref(heap', Ref(r.addr))
            = PyOfNotebook(GeneratorFunc(r.entry[1], r.entry[2]))

====
